---- MODULE Spec2Model ----
(***************************************************************************)
(* Model of iss_tracker_app.py: the three core functions (calc_speed_3d,   *)
(* current_location, find_location) and the Flask handlers that compose    *)
(* them (return_all, return_epoch, return_epoch_speed,                     *)
(* return_epoch_location, data_now).                                       *)
(*                                                                         *)
(* Python values are modelled as follows.                                  *)
(*   - a str is a sequence of one-character strings, so that slicing and   *)
(*     parsing are computed, character by character;                       *)
(*   - a float is an integer (all inputs used are whole numbers); the      *)
(*     range of a double is scaled down to FloatMax;                       *)
(*   - a dict is a function from keys to values, {} has the empty domain;  *)
(*   - the outcome of a call is Return(v) or Raise(exception name).        *)
(***************************************************************************)
EXTENDS Integers, Sequences, FiniteSets, TLC

VARIABLES op, data, xyz, epoch, limit, offset, now, geo, result

vars == <<op, data, xyz, epoch, limit, offset, now, geo, result>>

(***************************************************************************)
(* Bounds of the model                                                     *)
(***************************************************************************)
\* longest record sequence the feed delivers
MaxLen == 3

(***************************************************************************)
(* Outcomes of a Python call                                               *)
(***************************************************************************)
Return(v) == [tag |-> "return", exc |-> "", val |-> v]

Raise(e) == [tag |-> "raise", exc |-> e, val |-> <<>>]

Returned(r) == r.tag = "return"

Raised(r) == r.tag = "raise"

(***************************************************************************)
(* Python str operations                                                   *)
(***************************************************************************)
Min(a, b) == IF a < b THEN a ELSE b

Max(a, b) == IF a > b THEN a ELSE b

\* s[a:b] for 0 <= a <= b (indices past the end are clamped, as in Python)
Slice(s, a, b) == SubSeq(s, a + 1, Min(b, Len(s)))

Digits == <<"0", "1", "2", "3", "4", "5", "6", "7", "8", "9">>

IsDigit(c) == \E i \in 1..10 : Digits[i] = c

DigitVal(c) == (CHOOSE i \in 1..10 : Digits[i] = c) - 1

AllDigits(s) == Len(s) > 0 /\ \A i \in 1..Len(s) : IsDigit(s[i])

RECURSIVE DecVal(_)
\* value of a non-empty string of decimal digits
DecVal(s) ==
    IF Len(s) = 0 THEN 0
    ELSE 10 * DecVal(SubSeq(s, 1, Len(s) - 1)) + DigitVal(s[Len(s)])

\* int(s) / float(s) on a str of an optional sign and decimal digits;
\* every other str of the input alphabet raises ValueError
PyNumber(s) ==
    IF Len(s) > 0 /\ s[1] \in {"-", "+"}
    THEN IF AllDigits(Tail(s))
         THEN Return((IF s[1] = "-" THEN -1 ELSE 1) * DecVal(Tail(s)))
         ELSE Raise("ValueError")
    ELSE IF AllDigits(s) THEN Return(DecVal(s)) ELSE Raise("ValueError")

PyInt(s) == PyNumber(s)

PyFloat(s) == PyNumber(s)

(***************************************************************************)
(* time.strptime(s, '%Y-%jT%H:%M:%S') and time.mktime                      *)
(***************************************************************************)
\* the str matches the format with a day-of-year of wj digits and an hour,
\* minute and second of wH, wM and wS digits (the directives of strptime
\* take 1 to 3, resp. 1 to 2, digits; the separators fix the split)
MatchesFormat(s, wj, wH, wM, wS) ==
    /\ Len(s) = 8 + wj + wH + wM + wS
    /\ AllDigits(SubSeq(s, 1, 4))
    /\ s[5] = "-"
    /\ AllDigits(SubSeq(s, 6, 5 + wj))
    /\ DecVal(SubSeq(s, 6, 5 + wj)) \in 1..366
    /\ s[6 + wj] = "T"
    /\ AllDigits(SubSeq(s, 7 + wj, 6 + wj + wH))
    /\ DecVal(SubSeq(s, 7 + wj, 6 + wj + wH)) \in 0..23
    /\ s[7 + wj + wH] = ":"
    /\ AllDigits(SubSeq(s, 8 + wj + wH, 7 + wj + wH + wM))
    /\ DecVal(SubSeq(s, 8 + wj + wH, 7 + wj + wH + wM)) \in 0..59
    /\ s[8 + wj + wH + wM] = ":"
    /\ AllDigits(SubSeq(s, 9 + wj + wH + wM, 8 + wj + wH + wM + wS))
    /\ DecVal(SubSeq(s, 9 + wj + wH + wM, 8 + wj + wH + wM + wS)) \in 0..61

FieldWidths == (1..3) \X (1..2) \X (1..2) \X (1..2)

\* the field widths under which the str matches the format (at most one)
MatchingWidths(s) ==
    {w \in FieldWidths : MatchesFormat(s, w[1], w[2], w[3], w[4])}

\* the struct_time of a str that matches the format under the widths w
StructTime(s, w) ==
    [tm_year |-> DecVal(SubSeq(s, 1, 4)),
     tm_yday |-> DecVal(SubSeq(s, 6, 5 + w[1])),
     tm_hour |-> DecVal(SubSeq(s, 7 + w[1], 6 + w[1] + w[2])),
     tm_min  |-> DecVal(SubSeq(s, 8 + w[1] + w[2], 7 + w[1] + w[2] + w[3])),
     tm_sec  |-> DecVal(SubSeq(s, 9 + w[1] + w[2] + w[3],
                               8 + w[1] + w[2] + w[3] + w[4]))]

StrpTimeWith(s, ws) ==
    IF ws = {} THEN Raise("ValueError")
    ELSE Return(StructTime(s, CHOOSE w \in ws : TRUE))

\* time.strptime: the struct_time, or ValueError when the str does not
\* match the format
StrpTime(s) == StrpTimeWith(s, MatchingWidths(s))

LeapDaysBefore(y) == ((y - 1) \div 4) - ((y - 1) \div 100) + ((y - 1) \div 400)

DaysBeforeYear(y) == 365 * (y - 1970) + LeapDaysBefore(y) - LeapDaysBefore(1970)

\* time.mktime, the local zone being UTC: seconds since 1970-01-01T00:00:00
MkTime(tm) ==
    (DaysBeforeYear(tm.tm_year) + tm.tm_yday - 1) * 86400
        + tm.tm_hour * 3600 + tm.tm_min * 60 + tm.tm_sec

(***************************************************************************)
(* Python lists, dicts and attributes                                      *)
(***************************************************************************)
\* l[i] for a Python index i (0-based; a negative index counts from the end)
PyIndex(l, i) ==
    IF i >= 0 /\ i < Len(l) THEN Return(l[i + 1])
    ELSE IF i < 0 /\ -i <= Len(l) THEN Return(l[Len(l) + i + 1])
    ELSE Raise("IndexError")

\* the dict {}
EmptyDict == [k \in {} |-> ""]

IsEmptyDict(d) == DOMAIN d = {}

\* d[k]
GetItem(d, k) == IF k \in DOMAIN d THEN Return(d[k]) ELSE Raise("KeyError")

\* d[k] = v
SetItem(d, k, v) == (k :> v) @@ d

\* o.name, an object being the function from its attribute names
GetAttr(o, name) ==
    IF name \in DOMAIN o THEN Return(o[name]) ELSE Raise("AttributeError")

\* the object None
None == [a \in {} |-> ""]

\* str(v) of a number v: the text that denotes v
PyStr(v) == [str_of |-> v]

(***************************************************************************)
(* Python floats                                                           *)
(***************************************************************************)
\* largest finite float (sys.float_info.max, scaled down to the model's
\* integer range): float ** 2 raises OverflowError past it, float + float
\* gives inf
FloatMax == 100000000

Float(n) == [t |-> "float", v |-> n]

\* a value that is not a number
NonNumber(type) == [t |-> type, v |-> 0]

IsNumber(a) == a.t = "float"

\* a ** 2
Pow2(a) ==
    IF ~IsNumber(a) THEN Raise("TypeError")
    ELSE IF a.v * a.v > FloatMax THEN Raise("OverflowError")
    ELSE Return(a.v * a.v)

RECURSIVE ISqrtIn(_, _, _)
\* the largest k in lo..hi with k * k <= n
ISqrtIn(n, lo, hi) ==
    IF lo = hi THEN lo
    ELSE LET mid == (lo + hi + 1) \div 2
         IN  IF mid * mid <= n THEN ISqrtIn(n, mid, hi) ELSE ISqrtIn(n, lo, mid - 1)

ISqrt(n) == ISqrtIn(n, 0, Min(n, 46340))

\* the float inf
Inf == [inf |-> TRUE, root |-> 0, rem |-> 0]

\* math.sqrt(n) of a sum n of squares: the non-negative real r with
\* r * r = root * root + rem, where root is its integer part; inf past FloatMax
MathSqrt(n) ==
    IF n > FloatMax THEN Inf
    ELSE [inf |-> FALSE, root |-> ISqrt(n), rem |-> n - ISqrt(n) * ISqrt(n)]

\* the float 0.0
Zero == [inf |-> FALSE, root |-> 0, rem |-> 0]

\* math.sqrt(px + py + pz) of the three squares: the first operand that
\* could not be squared raises
SqrtOfSum(px, py, pz) ==
    IF Raised(px) THEN px
    ELSE IF Raised(py) THEN py
    ELSE IF Raised(pz) THEN pz
    ELSE Return(MathSqrt(px.val + py.val + pz.val))

\* math.sqrt(x**2 + y**2 + z**2), evaluated left to right
Norm3(x, y, z) == SqrtOfSum(Pow2(x), Pow2(y), Pow2(z))

(***************************************************************************)
(* calc_speed_3d                                                           *)
(***************************************************************************)
\* lines 37-40: the except clause and the return
SpeedOrDefault(speed) ==
    IF Raised(speed) /\ speed.exc = "TypeError" THEN Return(Zero) ELSE speed

calc_speed_3d(x, y, z) == SpeedOrDefault(Norm3(x, y, z))

(***************************************************************************)
(* current_location                                                        *)
(***************************************************************************)
\* lines 60-61: the struct_time of an item's epoch
ParseEpoch(field) ==
    IF Raised(field) THEN field ELSE StrpTime(Slice(field.val, 0, 17))

RECURSIVE ScanEpochs(_, _, _, _)
\* ScanItem with the comparison of line 64 made non-strict: the loop
\* breaks on an epoch equal to current_time
ScanItem_BreakOnEqual(list_of_dicts, key_string, current_time, i, epoch_time_obj) ==
    IF Raised(epoch_time_obj) THEN epoch_time_obj
    ELSE IF current_time <= MkTime(epoch_time_obj.val) THEN Return(i - 1)
    ELSE ScanEpochs(list_of_dicts, key_string, current_time, i + 1)

\* lines 62-68 for the i-th item, its epoch parsed: break, or go on
ScanItem(list_of_dicts, key_string, current_time, i, epoch_time_obj) ==
    IF Raised(epoch_time_obj) THEN epoch_time_obj
    ELSE IF current_time < MkTime(epoch_time_obj.val) THEN Return(i - 1)
    ELSE ScanEpochs(list_of_dicts, key_string, current_time, i + 1)

\* the for loop of current_location from the i-th item on: the value of
\* curr_index when the loop ends, or the exception that leaves it
ScanEpochs(list_of_dicts, key_string, current_time, i) ==
    IF i > Len(list_of_dicts) THEN Return(Len(list_of_dicts))
    ELSE ScanItem(list_of_dicts, key_string, current_time, i,
                  ParseEpoch(GetItem(list_of_dicts[i], key_string)))

\* SelectAt without the except clause: the ValueError leaves the function
SelectAt_Reraise(list_of_dicts, curr_index) ==
    IF Raised(curr_index) THEN curr_index
    ELSE PyIndex(list_of_dicts, curr_index.val - 1)

\* SelectAt with the index kept from going under 0: the first record where
\* the code returns the last
SelectAt_Clamped(list_of_dicts, curr_index) ==
    IF Raised(curr_index)
    THEN IF curr_index.exc = "ValueError" THEN Return(EmptyDict) ELSE curr_index
    ELSE PyIndex(list_of_dicts, Max(curr_index.val - 1, 0))

\* lines 69-74: the except clause and the return
SelectAt(list_of_dicts, curr_index) ==
    IF Raised(curr_index)
    THEN IF curr_index.exc = "ValueError" THEN Return(EmptyDict) ELSE curr_index
    ELSE PyIndex(list_of_dicts, curr_index.val - 1)

current_location(list_of_dicts, key_string, current_time) ==
    SelectAt(list_of_dicts, ScanEpochs(list_of_dicts, key_string, current_time, 1))

(***************************************************************************)
(* find_location                                                           *)
(***************************************************************************)
\* MEAN_EARTH_RADIUS = 6378.1, in tenths of a km
MEAN_EARTH_RADIUS == 63781

\* math.degrees(math.atan2(y, x)), in degrees, for the directions where it
\* is a whole number: along an axis or a diagonal
Atan2Deg(y, x) ==
    CASE y = 0 /\ x >= 0 -> 0
      [] y = 0 /\ x < 0 -> 180
      [] x = 0 /\ y > 0 -> 90
      [] x = 0 /\ y < 0 -> -90
      [] x = y /\ x > 0 -> 45
      [] x = y /\ x < 0 -> -135
      [] x = -y /\ x > 0 -> -45
      [] x = -y /\ x < 0 -> 135

\* math.degrees(math.atan2(z, math.sqrt(h2))), in thousandths of a degree,
\* for the elevations the positions of the model have
AtanSqrtMilliDeg(z, h2) ==
    LET sign == IF z < 0 THEN -1 ELSE 1
    IN  CASE z = 0 -> 0
          [] z # 0 /\ h2 = 0 -> sign * 90000
          [] z # 0 /\ h2 # 0 /\ z * z = h2 -> sign * 45000
          [] z # 0 /\ h2 # 0 /\ 2 * z * z = h2 -> sign * 35264

\* NormalizeLongitude with the branch of line 104 lost: only a value over
\* 180 degrees is wrapped
NormalizeLongitude_UpperOnly(longitude) ==
    IF longitude > 720 THEN -720 + (longitude - 720) ELSE longitude

\* lines 102-105, in quarter degrees: one wrap by a full turn
NormalizeLongitude(longitude) ==
    IF longitude > 720 THEN -720 + (longitude - 720)
    ELSE IF longitude < -720 THEN 720 + (longitude + 720)
    ELSE longitude

\* line 99, in quarter degrees (a minute of time is a quarter degree):
\* degrees(atan2(y, x)) - ((hrs-12)+(mins/60))*(360/24) + 19
RawLongitude(x, y, hrs, mins) ==
    4 * Atan2Deg(y.v, x.v) - (60 * (hrs - 12) + mins) + 76

\* Nominatim(...).reverse((latitude, longitude), ...): what the lookup can do.
\* geo = "address": a Location with an address; geo = "none": the service
\* has no result and reverse returns None; geo = "error": the lookup fails
\* and reverse raises (timeout, service unavailable, ...)
GeocoderReverse(latitude, longitude, geo_outcome) ==
    CASE geo_outcome = "address" ->
            Return([address |-> "address", latitude |-> latitude,
                    longitude |-> longitude])
      [] geo_outcome = "none" -> Return(None)
      [] geo_outcome = "error" -> Raise("GeocoderServiceError")

\* lines 112-115: the address, or the literal of the except clause
AddressOrOcean(address) ==
    IF Raised(address) THEN "Over Ocean" ELSE address.val

\* lines 112-117, the lookup done
LocationList(latitude, longitude, altitude, geolocation) ==
    IF Raised(geolocation) THEN geolocation
    ELSE Return(<<PyStr(latitude), PyStr(longitude), PyStr(altitude),
                  AddressOrOcean(GetAttr(geolocation.val, "address"))>>)

\* lines 109-117
Geolocate(latitude, longitude, altitude, geo_outcome) ==
    LocationList(latitude, longitude, altitude,
                 GeocoderReverse(latitude, longitude, geo_outcome))

\* lines 97-117, px, py and r being x**2, y**2 and the distance from the
\* centre of the Earth
LocateWith(x, y, z, hrs, mins, geo_outcome, px, py, r) ==
    IF Raised(px) THEN px
    ELSE IF Raised(py) THEN py
    ELSE IF Raised(r) THEN r
    ELSE Geolocate(AtanSqrtMilliDeg(z.v, px.val + py.val),
                   NormalizeLongitude(RawLongitude(x, y, hrs, mins)),
                   [sqrt |-> r.val, minus |-> MEAN_EARTH_RADIUS],
                   geo_outcome)

\* lines 97-117: find_location after the epoch is parsed
LocateAt(x, y, z, hrs, mins, geo_outcome) ==
    LocateWith(x, y, z, hrs, mins, geo_outcome, Pow2(x), Pow2(y), Norm3(x, y, z))

\* lines 93-117: hrs and mins being the outcomes of the two int() calls
LocateParsed(x, y, z, hrs, mins, geo_outcome) ==
    IF Raised(hrs) \/ Raised(mins) THEN Return(<<>>)
    ELSE LocateAt(x, y, z, hrs.val, mins.val, geo_outcome)

find_location(x, y, z, epoch_str, geo_outcome) ==
    LocateParsed(x, y, z, PyInt(Slice(epoch_str, 9, 11)),
                 PyInt(Slice(epoch_str, 12, 14)), geo_outcome)

(***************************************************************************)
(* The Flask handlers.  get_data() is the fetched record sequence; each    *)
(* handler is given it, with the request's parameters.                     *)
(***************************************************************************)
\* item[key]['#text'], field being the outcome of item[key]
TextOf(field) ==
    IF Raised(field) THEN field ELSE GetItem(field.val, "#text")

FloatValue(f) == IF Raised(f) THEN f ELSE Return(Float(f.val))

\* float(text), text being the outcome of item[key]['#text']
FloatOf(text) ==
    IF Raised(text) THEN text ELSE FloatValue(PyFloat(text.val))

\* float(item[key]['#text'])
FloatField(item, key) == FloatOf(TextOf(GetItem(item, key)))

\* a query parameter that the request does not carry
Absent == [present |-> FALSE, text |-> <<>>]

\* a query parameter that the request carries, with its text
Given(text) == [present |-> TRUE, text |-> text]

\* lines 186-198: request.args.get(name, default) followed by int(), the
\* default replacing a text that int() rejects
IntParam(param, default) ==
    IF ~param.present THEN default
    ELSE LET n == PyInt(param.text)
         IN  IF Raised(n) THEN default ELSE n.val

RECURSIVE CollectSlice(_, _, _, _, _)
\* the loop of return_all from i on, new_data being what is collected so far
CollectSlice(records, limit_n, offset_n, i, new_data) ==
    IF i >= limit_n THEN Return(new_data)
    ELSE IF i + offset_n < Len(records)
         THEN LET item == PyIndex(records, i + offset_n)
              IN  IF Raised(item) THEN item
                  ELSE CollectSlice(records, limit_n, offset_n, i + 1,
                                    Append(new_data, item.val))
         ELSE CollectSlice(records, limit_n, offset_n, i + 1, new_data)

return_all(records, limit_param, offset_param) ==
    CollectSlice(records, IntParam(limit_param, Len(records)),
                 IntParam(offset_param, 0), 0, <<>>)

\* the indices of the items whose EPOCH is the requested str
Matches(records, epoch_str) ==
    {i \in 1..Len(records) : records[i]["EPOCH"] = epoch_str}

\* the first item whose EPOCH is the requested str
FirstMatch(records, epoch_str) ==
    records[CHOOSE i \in Matches(records, epoch_str) :
                \A j \in Matches(records, epoch_str) : i <= j]

return_epoch(records, epoch_str) ==
    IF Matches(records, epoch_str) = {} THEN Return(EmptyDict)
    ELSE Return(FirstMatch(records, epoch_str))

\* calc_speed_3d of the three velocity components, once converted
SpeedOf(x_dot, y_dot, z_dot) ==
    IF Raised(x_dot) THEN x_dot
    ELSE IF Raised(y_dot) THEN y_dot
    ELSE IF Raised(z_dot) THEN z_dot
    ELSE calc_speed_3d(x_dot.val, y_dot.val, z_dot.val)

\* lines 241-244 and 283-286: the speed of a stateVector
ItemSpeed(item) ==
    SpeedOf(FloatField(item, "X_DOT"), FloatField(item, "Y_DOT"),
            FloatField(item, "Z_DOT"))

\* str(speed) + '\n'
SpeedText(speed) ==
    IF Raised(speed) THEN speed ELSE Return(<<PyStr(speed.val), "\n">>)

return_epoch_speed(records, epoch_str) ==
    IF Matches(records, epoch_str) = {} THEN Return(<<PyStr(Zero), "\n">>)
    ELSE SpeedText(ItemSpeed(FirstMatch(records, epoch_str)))

\* find_location of the converted position and the epoch
LocationFrom(x, y, z, epoch_str, geo_outcome) ==
    IF Raised(x) THEN x
    ELSE IF Raised(y) THEN y
    ELSE IF Raised(z) THEN z
    ELSE IF Raised(epoch_str) THEN epoch_str
    ELSE find_location(x.val, y.val, z.val, epoch_str.val, geo_outcome)

\* find_location(float(item['X']['#text']), float(item['Y']['#text']),
\*               float(item['Z']['#text']), item['EPOCH'])
LocationOf(item, geo_outcome) ==
    LocationFrom(FloatField(item, "X"), FloatField(item, "Y"),
                 FloatField(item, "Z"), GetItem(item, "EPOCH"), geo_outcome)

return_epoch_location(records, epoch_str, geo_outcome) ==
    IF Matches(records, epoch_str) = {} THEN Return(<<>>)
    ELSE LocationOf(FirstMatch(records, epoch_str), geo_outcome)

\* lines 291-295: the fields made of location_now[0..3]
WithLocation(statevector_now, lat, lon, alt, loc) ==
    IF Raised(lat) THEN lat
    ELSE IF Raised(lon) THEN lon
    ELSE IF Raised(alt) THEN alt
    ELSE IF Raised(loc) THEN loc
    ELSE Return(SetItem(SetItem(SetItem(statevector_now,
                    "COORDINATES", <<"(", lat.val, ", ", lon.val, ")">>),
                    "ALTITUDE (km)", alt.val),
                    "LOCATION", loc.val))

\* lines 291-295, location_now being the outcome of find_location
AddLocationFrom(statevector_now, location_now) ==
    IF Raised(location_now) THEN location_now
    ELSE WithLocation(statevector_now,
                      PyIndex(location_now.val, 0), PyIndex(location_now.val, 1),
                      PyIndex(location_now.val, 2), PyIndex(location_now.val, 3))

\* lines 290-295
AddLocation(statevector_now, geo_outcome) ==
    AddLocationFrom(statevector_now, LocationOf(statevector_now, geo_outcome))

\* lines 288-295, speed_now being the outcome of calc_speed_3d
WithSpeed(statevector_now, speed_now, geo_outcome) ==
    IF Raised(speed_now) THEN speed_now
    ELSE AddLocation(SetItem(statevector_now, "SPEED", speed_now.val),
                     geo_outcome)

\* lines 283-295, statevector_now being the outcome of current_location
AugmentNow(statevector_now, geo_outcome) ==
    IF Raised(statevector_now) THEN statevector_now
    ELSE WithSpeed(statevector_now.val, ItemSpeed(statevector_now.val),
                   geo_outcome)

data_now(records, current_time, geo_outcome) ==
    AugmentNow(current_location(records, "EPOCH", current_time), geo_outcome)

(***************************************************************************)
(* Inputs: the strs, numbers and record sequences the operations are       *)
(* applied to                                                              *)
(***************************************************************************)
\* '2024-045T12:00:00.000Z' (the epoch of the tests)
Epoch2024_045 == <<"2", "0", "2", "4", "-", "0", "4", "5", "T", "1", "2", ":", "0", "0", ":", "0", "0", ".", "0", "0", "0", "Z">>

\* '2024-050T12:00:00.000Z'
Epoch2024_050 == <<"2", "0", "2", "4", "-", "0", "5", "0", "T", "1", "2", ":", "0", "0", ":", "0", "0", ".", "0", "0", "0", "Z">>

\* '2024-069T06:38:30.000Z'
Epoch2024_069 == <<"2", "0", "2", "4", "-", "0", "6", "9", "T", "0", "6", ":", "3", "8", ":", "3", "0", ".", "0", "0", "0", "Z">>

\* '2034-045T12:00:00.000Z' (the far future of the tests)
Epoch2034_045 == <<"2", "0", "3", "4", "-", "0", "4", "5", "T", "1", "2", ":", "0", "0", ":", "0", "0", ".", "0", "0", "0", "Z">>

\* '2024-045': no time of day (the malformed epoch of the tests)
EpochNoTime == <<"2", "0", "2", "4", "-", "0", "4", "5">>

\* '2024-001T40:00:00.000Z': no such hour, but an integer at the hour offsets
EpochHour40 == <<"2", "0", "2", "4", "-", "0", "0", "1", "T", "4", "0", ":", "0", "0", ":", "0", "0", ".", "0", "0", "0", "Z">>

\* '2024-200': the epoch of no record
EpochAbsent == <<"2", "0", "2", "4", "-", "2", "0", "0">>

\* 'yyyy-dddThh:mm:00.000Z' for a given hh and mm
EpochAt(hh, mm) == <<"2", "0", "2", "4", "-", "0", "0", "1", "T">> \o hh \o <<":">> \o mm \o <<":", "0", "0", ".", "0", "0", "0", "Z">>

HourTexts == {<<"0", "0">>, <<"0", "6">>, <<"1", "2">>, <<"1", "9">>, <<"2", "3">>, <<"3", "7">>, <<"4", "0">>, <<"9", "9">>, <<"-", "9">>, <<"x", "x">>}

MinuteTexts == {<<"0", "0">>, <<"3", "6">>, <<"3", "8">>, <<"5", "6">>, <<"5", "9">>, <<"9", "9">>, <<"x", "x">>}

EpochTexts ==
    {Epoch2024_045, Epoch2024_050, Epoch2024_069, Epoch2034_045, EpochNoTime,
     EpochHour40, EpochAbsent}
        \cup {EpochAt(hh, mm) : hh \in HourTexts, mm \in MinuteTexts}

\* values of time.time(): before every epoch, the very second of
\* Epoch2024_045, between Epoch2024_045 and Epoch2024_050, and between
\* Epoch2024_069 and Epoch2034_045
NowValues == {1700000000, 1707912000, 1708000000, 1800000000}

\* arguments of calc_speed_3d: floats, a str and None
SpeedInputs ==
    {Float(n) : n \in {-4, 0, 3, 4, 6, 8, 10000, 20000}}
        \cup {NonNumber("str"), NonNumber("NoneType")}

\* coordinates of find_location
Coordinates == {Float(n) : n \in {-4000, 0, 4000}}

GeoOutcomes == {"address", "none", "error"}

\* a numeric field of a stateVector, as xmltodict delivers it
Quantity(units, text) == ("@units" :> units) @@ ("#text" :> text)

StateVector(epoch_str, x, y, z, x_dot, y_dot, z_dot) ==
    [EPOCH |-> epoch_str,
     X |-> Quantity("km", x), Y |-> Quantity("km", y), Z |-> Quantity("km", z),
     X_DOT |-> Quantity("km/s", x_dot), Y_DOT |-> Quantity("km/s", y_dot),
     Z_DOT |-> Quantity("km/s", z_dot)]

P4000 == <<"4", "0", "0", "0">>

N4000 == <<"-", "4", "0", "0", "0">>

\* the stateVectors the feed is made of
StateVectors ==
    {StateVector(Epoch2024_045, P4000, P4000, N4000, <<"3">>, <<"4">>, <<"0">>),
     StateVector(Epoch2024_045, <<"0">>, P4000, P4000, <<"8">>, <<"6">>, <<"0">>),
     StateVector(Epoch2024_050, N4000, <<"0">>, P4000, <<"6">>, <<"0">>, <<"8">>),
     StateVector(Epoch2024_069, P4000, N4000, <<"0">>, <<"2", "0", "0", "0", "0">>, <<"0">>, <<"0">>),
     StateVector(Epoch2034_045, <<"0">>, N4000, <<"0">>, <<"0">>, <<"-", "4">>, <<"3">>),
     StateVector(EpochNoTime, P4000, <<"0">>, <<"0">>, <<"3">>, <<"4">>, <<"0">>),
     StateVector(EpochHour40, N4000, N4000, <<"0">>, <<"0">>, <<"3">>, <<"4">>)}

\* the record sequences get_data() can deliver
Feeds == UNION {[1..n -> StateVectors] : n \in 0..MaxLen}

\* the epochs a request can ask for
RequestedEpochs ==
    {Epoch2024_045, Epoch2024_050, Epoch2024_069, EpochNoTime, EpochHour40,
     EpochAbsent}

\* the limit and offset a request can carry
QueryParams ==
    {Absent} \cup {Given(s) : s \in {<<"0">>, <<"1">>, <<"2">>, <<"1", "0">>,
                                     <<"-", "1">>, <<"-", "5">>,
                                     <<"a", "b", "c">>}}

(***************************************************************************)
(* The state machine: one action per operation, applied to inputs of its   *)
(* choice; the variables hold the operation, its inputs and its outcome.   *)
(* The operations share no state (each request fetches the feed again),    *)
(* so a behaviour is one call, made from the state where none was made.    *)
(***************************************************************************)
NoXyz == <<Float(0), Float(0), Float(0)>>

Init ==
    /\ op = "start"
    /\ data = <<>>
    /\ xyz = NoXyz
    /\ epoch = <<>>
    /\ limit = Absent
    /\ offset = Absent
    /\ now = 0
    /\ geo = "unused"
    /\ result = Return(<<>>)

CalcSpeed3d ==
    /\ op = "start"
    /\ \E x \in SpeedInputs, y \in SpeedInputs, z \in SpeedInputs :
        /\ op' = "calc_speed_3d"
        /\ xyz' = <<x, y, z>>
        /\ result' = calc_speed_3d(x, y, z)
        /\ data' = <<>>
        /\ epoch' = <<>>
        /\ limit' = Absent
        /\ offset' = Absent
        /\ now' = 0
        /\ geo' = "unused"

CurrentLocation ==
    /\ op = "start"
    /\ \E records \in Feeds, current_time \in NowValues :
        /\ op' = "current_location"
        /\ data' = records
        /\ now' = current_time
        /\ result' = current_location(records, "EPOCH", current_time)
        /\ xyz' = NoXyz
        /\ epoch' = <<>>
        /\ limit' = Absent
        /\ offset' = Absent
        /\ geo' = "unused"

FindLocation ==
    /\ op = "start"
    /\ \E x \in Coordinates, y \in Coordinates, z \in Coordinates,
       epoch_str \in EpochTexts, geo_outcome \in GeoOutcomes :
        /\ op' = "find_location"
        /\ xyz' = <<x, y, z>>
        /\ epoch' = epoch_str
        /\ geo' = geo_outcome
        /\ result' = find_location(x, y, z, epoch_str, geo_outcome)
        /\ data' = <<>>
        /\ limit' = Absent
        /\ offset' = Absent
        /\ now' = 0

ReturnAll ==
    /\ op = "start"
    /\ \E records \in Feeds, limit_param \in QueryParams, offset_param \in QueryParams :
        /\ op' = "return_all"
        /\ data' = records
        /\ limit' = limit_param
        /\ offset' = offset_param
        /\ result' = return_all(records, limit_param, offset_param)
        /\ xyz' = NoXyz
        /\ epoch' = <<>>
        /\ now' = 0
        /\ geo' = "unused"

ReturnEpoch ==
    /\ op = "start"
    /\ \E records \in Feeds, epoch_str \in RequestedEpochs :
        /\ op' = "return_epoch"
        /\ data' = records
        /\ epoch' = epoch_str
        /\ result' = return_epoch(records, epoch_str)
        /\ xyz' = NoXyz
        /\ limit' = Absent
        /\ offset' = Absent
        /\ now' = 0
        /\ geo' = "unused"

ReturnEpochSpeed ==
    /\ op = "start"
    /\ \E records \in Feeds, epoch_str \in RequestedEpochs :
        /\ op' = "return_epoch_speed"
        /\ data' = records
        /\ epoch' = epoch_str
        /\ result' = return_epoch_speed(records, epoch_str)
        /\ xyz' = NoXyz
        /\ limit' = Absent
        /\ offset' = Absent
        /\ now' = 0
        /\ geo' = "unused"

ReturnEpochLocation ==
    /\ op = "start"
    /\ \E records \in Feeds, epoch_str \in RequestedEpochs, geo_outcome \in GeoOutcomes :
        /\ op' = "return_epoch_location"
        /\ data' = records
        /\ epoch' = epoch_str
        /\ geo' = geo_outcome
        /\ result' = return_epoch_location(records, epoch_str, geo_outcome)
        /\ xyz' = NoXyz
        /\ limit' = Absent
        /\ offset' = Absent
        /\ now' = 0

DataNow ==
    /\ op = "start"
    /\ \E records \in Feeds, current_time \in NowValues, geo_outcome \in GeoOutcomes :
        /\ op' = "data_now"
        /\ data' = records
        /\ now' = current_time
        /\ geo' = geo_outcome
        /\ result' = data_now(records, current_time, geo_outcome)
        /\ xyz' = NoXyz
        /\ epoch' = <<>>
        /\ limit' = Absent
        /\ offset' = Absent

\* the core functions alone
NextCore == CalcSpeed3d \/ CurrentLocation \/ FindLocation

SpecCore == Init /\ [][NextCore]_vars

\* the core functions and the handlers
Next ==
    \/ CalcSpeed3d
    \/ CurrentLocation
    \/ FindLocation
    \/ ReturnAll
    \/ ReturnEpoch
    \/ ReturnEpochSpeed
    \/ ReturnEpochLocation
    \/ DataNow

Spec == Init /\ [][Next]_vars

(***************************************************************************)
(* Vocabulary of the properties                                            *)
(***************************************************************************)
\* the record's epoch is well-formed: its first 17 characters are a
\* 'yyyy-dddThh:mm:ss' that strptime accepts
WellFormed(record) == Returned(StrpTime(Slice(record["EPOCH"], 0, 17)))

\* the time of a well-formed epoch, as current_location compares it
EpochSeconds(record) == MkTime(StrpTime(Slice(record["EPOCH"], 0, 17)).val)

AllWellFormed(records) == \A i \in 1..Len(records) : WellFormed(records[i])

SortedByEpoch(records) ==
    \A i \in 1..Len(records) : \A j \in i..Len(records) :
        EpochSeconds(records[i]) <= EpochSeconds(records[j])

\* the positions of the records whose epoch is not after current_time
NotAfter(records, current_time) ==
    {i \in 1..Len(records) : EpochSeconds(records[i]) <= current_time}

SetMax(S) == CHOOSE m \in S : \A n \in S : n <= m

SetMin(S) == CHOOSE m \in S : \A n \in S : m <= n

\* the longitude of a non-empty result of find_location, in quarter degrees
LongitudeOf(location) == location[2].str_of

HoursOf(epoch_str) == PyInt(Slice(epoch_str, 9, 11))

MinutesOf(epoch_str) == PyInt(Slice(epoch_str, 12, 14))

(***************************************************************************)
(* C1                                                                      *)
(***************************************************************************)
C1_Case ==
    /\ op = "current_location"
    /\ AllWellFormed(data)
    /\ SortedByEpoch(data)
    /\ NotAfter(data, now) # {}

\* C1: on a sequence of well-formed epochs in ascending order, one of them
\* at least not after current_time, current_location returns the last
\* record whose epoch is not after current_time (an epoch equal to
\* current_time is not after it).
C1_LastNotAfter ==
    C1_Case =>
        /\ Returned(result)
        /\ result.val = data[SetMax(NotAfter(data, now))]

\* three records, the second at current_time exactly and differing from the
\* first, the third in the future: the second is returned
C1_Witness ==
    /\ C1_Case
    /\ Len(data) = 3
    /\ EpochSeconds(data[2]) = now
    /\ EpochSeconds(data[3]) > now
    /\ data[1] # data[2]
    /\ Returned(result)
    /\ result.val = data[2]

(***************************************************************************)
(* C2                                                                      *)
(***************************************************************************)
\* C2 as stated: any sequence that contains a malformed epoch makes
\* current_location return {}, and any malformed epoch makes find_location
\* return [].
C2_AnyMalformedIsEmpty ==
    /\ (op = "current_location" /\ ~AllWellFormed(data)) =>
            (Returned(result) /\ IsEmptyDict(result.val))
    /\ (op = "find_location"
            /\ Raised(StrpTime(Slice(epoch, 0, 17)))
            /\ geo # "error") =>  \* the failing lookup is C6's matter
            (Returned(result) /\ result.val = <<>>)

\* the scan of current_location reaches a malformed epoch: the records
\* before the first malformed one are not after current_time
ReachesMalformed(records, current_time) ==
    \E i \in 1..Len(records) :
        /\ ~WellFormed(records[i])
        /\ \A j \in 1..(i - 1) :
              WellFormed(records[j]) /\ EpochSeconds(records[j]) <= current_time

\* C2 (amended): current_location returns {} when its scan reaches a
\* malformed epoch; find_location returns [] when the characters at the
\* hour offsets or at the minute offsets are not an integer.  Neither raises.
C2_ParsedMalformedIsEmpty ==
    /\ (op = "current_location" /\ ReachesMalformed(data, now)) =>
            (Returned(result) /\ IsEmptyDict(result.val))
    /\ (op = "find_location"
            /\ (Raised(HoursOf(epoch)) \/ Raised(MinutesOf(epoch)))) =>
            (Returned(result) /\ result.val = <<>>)

\* a past well-formed epoch followed by a malformed one: {} is returned
C2_Witness ==
    /\ op = "current_location"
    /\ Len(data) >= 2
    /\ WellFormed(data[1])
    /\ EpochSeconds(data[1]) <= now
    /\ ~WellFormed(data[2])
    /\ Returned(result)
    /\ IsEmptyDict(result.val)

(***************************************************************************)
(* C3                                                                      *)
(***************************************************************************)
\* C3: calc_speed_3d never raises; on three numbers it returns the
\* non-negative r with r*r = x*x + y*y + z*z (inf when the sum is past the
\* largest float); with a non-number among the three it returns 0.0.
C3_NeverRaises ==
    op = "calc_speed_3d" =>
        /\ Returned(result)
        /\ (IsNumber(xyz[1]) /\ IsNumber(xyz[2]) /\ IsNumber(xyz[3])) =>
              LET sum == xyz[1].v * xyz[1].v + xyz[2].v * xyz[2].v
                            + xyz[3].v * xyz[3].v
              IN  IF result.val.inf THEN sum > FloatMax
                  ELSE /\ result.val.root >= 0
                       /\ result.val.root * result.val.root + result.val.rem = sum
        /\ (~IsNumber(xyz[1]) \/ ~IsNumber(xyz[2]) \/ ~IsNumber(xyz[3])) =>
              result.val = Zero

(***************************************************************************)
(* C4                                                                      *)
(***************************************************************************)
AddedFields == {"SPEED", "COORDINATES", "ALTITUDE (km)", "LOCATION"}

\* C4: data_now completes without a fault on every fetched sequence, and
\* the record it returns is the one current_location chooses, with the
\* fields SPEED, COORDINATES, ALTITUDE (km) and LOCATION added.  (Stated
\* for the feeds of one record at least and the lookups that do not fail:
\* the empty feed is C8's matter and the failing lookup C6's.)
C4_NowNeverFaults ==
    (op = "data_now" /\ Len(data) >= 1 /\ geo # "error") =>
        /\ Returned(result)
        /\ ~IsEmptyDict(result.val) =>
              LET chosen == current_location(data, "EPOCH", now)
              IN  /\ Returned(chosen)
                  /\ AddedFields \subseteq DOMAIN result.val
                  /\ \A k \in DOMAIN chosen.val : result.val[k] = chosen.val[k]

(***************************************************************************)
(* C5                                                                      *)
(***************************************************************************)
\* C5: the lookups by epoch never fault; return_epoch returns the first
\* record whose EPOCH is the requested str; without such a record
\* return_epoch returns {}, return_epoch_speed the text of 0.0 and
\* return_epoch_location [].
C5_LookupNeverFaults ==
    /\ op = "return_epoch" =>
          /\ Returned(result)
          /\ IF Matches(data, epoch) = {} THEN IsEmptyDict(result.val)
             ELSE result.val = data[SetMin(Matches(data, epoch))]
    /\ op = "return_epoch_speed" =>
          /\ Returned(result)
          /\ Matches(data, epoch) = {} => result.val = <<PyStr(Zero), "\n">>
    /\ op = "return_epoch_location" =>
          /\ Returned(result)
          /\ Matches(data, epoch) = {} => result.val = <<>>

(***************************************************************************)
(* C6                                                                      *)
(***************************************************************************)
\* C6: in find_location a lookup without a usable address, the service
\* having no result or the lookup failing, gives a 4-element result whose
\* place is "Over Ocean"; no failure of the lookup leaves find_location.
C6_NoAddressIsOverOcean ==
    (/\ op = "find_location"
     /\ Returned(HoursOf(epoch))
     /\ Returned(MinutesOf(epoch))
     /\ geo \in {"none", "error"}) =>
        /\ Returned(result)
        /\ Len(result.val) = 4
        /\ result.val[4] = "Over Ocean"

(***************************************************************************)
(* C7                                                                      *)
(***************************************************************************)
\* C7 as stated: every non-empty result of find_location has a longitude
\* in [-180, 180] (quarter degrees: [-720, 720]), whatever integers the
\* hour and minute offsets hold.
C7_LongitudeInRange ==
    (op = "find_location" /\ Returned(result) /\ result.val # <<>>) =>
        (LongitudeOf(result.val) >= -720 /\ LongitudeOf(result.val) <= 720)

\* the hour and minute offsets hold a time of day
TimeOfDay(epoch_str) ==
    /\ Returned(HoursOf(epoch_str))
    /\ Returned(MinutesOf(epoch_str))
    /\ HoursOf(epoch_str).val \in 0..23
    /\ MinutesOf(epoch_str).val \in 0..59

\* the longitude before normalization, of the inputs of find_location
RawOf(position, epoch_str) ==
    4 * Atan2Deg(position[2].v, position[1].v)
        - (60 * (HoursOf(epoch_str).val - 12) + MinutesOf(epoch_str).val) + 76

C7_Case ==
    /\ op = "find_location"
    /\ TimeOfDay(epoch)
    /\ Returned(result)
    /\ result.val # <<>>

\* C7 (amended): for an epoch whose hour and minute offsets hold a time of
\* day (0..23 and 0..59), the longitude of a non-empty result is in
\* [-180, 180]: a value over 180 is lowered by 360 (190 becomes -170), a
\* value under -180 is raised by 360 (-190 becomes 170), a value in
\* [-180, 180] is unchanged.
C7_LongitudeInRangeOfDay ==
    C7_Case =>
        LET raw == RawOf(xyz, epoch)
            lon == LongitudeOf(result.val)
        IN  /\ lon >= -720 /\ lon <= 720
            /\ raw > 720 => lon = raw - 1440
            /\ raw < -720 => lon = raw + 1440
            /\ (raw >= -720 /\ raw <= 720) => lon = raw
            /\ raw = 760 => lon = -680
            /\ raw = -760 => lon = 680

\* a pre-normalization longitude of 190 degrees, returned as -170
C7_Witness ==
    /\ C7_Case
    /\ RawOf(xyz, epoch) = 760
    /\ LongitudeOf(result.val) = -680

(***************************************************************************)
(* C8                                                                      *)
(***************************************************************************)
\* C8: current_location never raises, whatever the sequence: it returns
\* one of the records of the sequence, or {}.
C8_SelectorNeverRaises ==
    op = "current_location" =>
        /\ Returned(result)
        /\ \/ IsEmptyDict(result.val)
           \/ \E i \in 1..Len(data) : result.val = data[i]

(***************************************************************************)
(* C9                                                                      *)
(***************************************************************************)
C9_Case ==
    /\ op = "current_location"
    /\ Len(data) >= 1
    /\ WellFormed(data[1])

\* C9: when the first epoch (well-formed) is after current_time,
\* current_location returns the last element of the sequence; a sequence of
\* one record with a well-formed epoch returns that record, before or after
\* current_time.
C9_WrapsToLast ==
    C9_Case =>
        /\ EpochSeconds(data[1]) > now =>
              (Returned(result) /\ result.val = data[Len(data)])
        /\ Len(data) = 1 => (Returned(result) /\ result.val = data[1])

\* three records, the first in the future and the last another record
\* than the first: the last is returned
C9_Witness ==
    /\ C9_Case
    /\ Len(data) = 3
    /\ EpochSeconds(data[1]) > now
    /\ data[3] # data[1]
    /\ Returned(result)
    /\ result.val = data[3]

(***************************************************************************)
(* C10                                                                     *)
(***************************************************************************)
\* the positions (0-based) offset .. offset+limit-1 that the sequence has
SlicePositions(records, limit_n, offset_n) ==
    {p \in offset_n..(offset_n + limit_n - 1) : p >= 0 /\ p < Len(records)}

\* the records at those positions, in order
SliceOf(records, limit_n, offset_n) ==
    IF SlicePositions(records, limit_n, offset_n) = {} THEN <<>>
    ELSE SubSeq(records, SetMin(SlicePositions(records, limit_n, offset_n)) + 1,
                SetMax(SlicePositions(records, limit_n, offset_n)) + 1)

\* C10: return_all never faults and returns the records at the positions
\* offset .. offset+limit-1 that exist, in order, so at most limit of them;
\* an absent or non-numeric limit counts as the length of the sequence, an
\* absent or non-numeric offset as 0.
C10_ContiguousSlice ==
    op = "return_all" =>
        /\ Returned(result)
        /\ result.val = SliceOf(data, IntParam(limit, Len(data)),
                                IntParam(offset, 0))
        /\ Len(result.val) <= Max(IntParam(limit, Len(data)), 0)

====
